---- MODULE Spec2Model ----
(***************************************************************************)
(* A model of drama/log.py: the StrftimeHandler (a file handler whose path *)
(* is a strftime template resolved against each record's timestamp), the   *)
(* MsgOutHandler (the bridge to drama.msgout / drama.ersout), the          *)
(* MsgOutFormatter, and the wiring made by setup().                        *)
(*                                                                         *)
(* Paths are sequences of components (<<"/", "jac_logs", "d0", "T.log">>). *)
(* Time is an integer; a day is DayLen units long and local time is        *)
(* TzOffset units ahead of UTC.                                            *)
(***************************************************************************)
EXTENDS Integers, Sequences, FiniteSets, TLC

VARIABLES
    utc,            \* StrftimeHandler.utc
    chmod,          \* StrftimeHandler.chmod: <<>> (None) or <<mode>>
    filefmt,        \* StrftimeHandler.filefmt: "abs" or "rel" template
    filestr,        \* StrftimeHandler.filestr
    baseFilename,   \* FileHandler.baseFilename
    stream,         \* FileHandler.stream: <<>> (None) or <<[name, closed]>>
    dirs,           \* the directories that exist
    handles,        \* per file, the number of OS handles open on it
    last,           \* what the last emit call did
    record,         \* the record being handed to the handlers: <<>> or <<rec>>
    pending,        \* the handlers the record has still to be handed to
    out,            \* per handler, what it emitted for the record
    files,          \* per file, its content: the timestamps of the records in it
    emitted,        \* the timestamps of the records written so far, in order
    lock,           \* the handler's lock: 0 (free) or the thread holding it
    thread          \* per thread, where it is in Handler.handle and its record

sinkVars == <<utc, chmod, filefmt, filestr, baseFilename, stream, dirs, handles>>

vars == <<utc, chmod, filefmt, filestr, baseFilename, stream, dirs,
          handles, last, record, pending, out, files, emitted, lock, thread>>

-----------------------------------------------------------------------------
(* Bounds *)

MaxTime == 2       \* record.created ranges over 0 .. MaxTime
DayLen == 2        \* the length of a day
TzOffset == 1      \* local time is UTC + TzOffset

\* The timestamps records carry; MaxTime + 1 stands for one out of the range
\* gmtime and localtime accept.
Times == 0 .. MaxTime + 1

InRange(t) == t <= MaxTime
Days == 0 .. ((MaxTime + TzOffset) \div DayLen)

-----------------------------------------------------------------------------
(* time.gmtime / time.localtime / time.strftime and os.path *)

Gmtime(t) == [day |-> t \div DayLen, tod |-> t % DayLen]

Localtime(t) == Gmtime(t + TzOffset)

DayName(d) == "d" \o ToString(d)

\* The templates: '/jac_logs/%Y%m%d/T.log' (what setup() builds), the
\* directory-less relative template '%Y%m%d.log', and the template '.',
\* which has no directive and resolves to itself.
Strftime(fmt, tm) ==
    IF fmt = "abs" THEN <<"/", "jac_logs", DayName(tm.day), "T.log">>
    ELSE IF fmt = "dot" THEN <<".">>
    ELSE <<DayName(tm.day)>>

Cwd == <<"/", "cwd">>

IsAbs(p) == Len(p) > 0 /\ p[1] = "/"

Abspath(p) == IF IsAbs(p) THEN p ELSE Cwd \o p

Dirname(p) == SubSeq(p, 1, Len(p) - 1)

Prefixes(p) == { SubSeq(p, 1, k) : k \in 1 .. Len(p) }

AllFiles == { Abspath(Strftime(f, [day |-> d, tod |-> 0])) : f \in {"abs", "rel"}, d \in Days }

-----------------------------------------------------------------------------
(* Log records, exceptions and logging.Formatter *)

DEBUG == 10
INFO == 20
WARNING == 30
ERROR == 40

LevelName(l) ==
    IF l = DEBUG THEN "DEBUG" ELSE IF l = INFO THEN "INFO"
    ELSE IF l = WARNING THEN "WARNING" ELSE "ERROR"

\* An exc_info triple is <<>> (None) or <<[type, status, message]>>.
NoExc == <<>>

\* exc_text is <<>> (None) or <<text>>; Python's "not record.exc_text" is
\* true of None and of the empty string.
Truthy(et) == et # <<>> /\ ~(et[1].kind = "message" /\ et[1].text = "")

\* logging.Formatter.formatException: the full traceback.
StdFormatException(ei) ==
    [kind |-> "traceback", type |-> ei[1].type, text |-> ei[1].message, frames |-> TRUE]

\* logging.Formatter.formatStack returns the stack text unchanged.
StdFormatStack(si) == si

\* A format that caches nothing on the record.
FormatWith_NoCache(which, rec, excText, stackText) ==
    LET cached == IF rec.exc_info # NoExc /\ ~Truthy(rec.exc_text)
                  THEN <<excText>> ELSE rec.exc_text
    IN [rec  |-> rec,
        text |-> [fmt       |-> which,
                  asctime   |-> IF which = "std" THEN <<rec.created>> ELSE <<>>,
                  levelname |-> LevelName(rec.levelno),
                  message   |-> rec.msg,
                  exc       |-> IF Truthy(cached) THEN cached ELSE <<>>,
                  stack     |-> IF rec.stack_info # "" THEN stackText ELSE ""]]

\* logging.Formatter.format, parameterised by the formatter's two hooks
\* (which: "std" for logging.Formatter, "msgout" for MsgOutFormatter).
\* Returns the record after formatting (exc_text is cached on it) and the text.
FormatWith(which, rec, excText, stackText) ==
    LET cached == IF rec.exc_info # NoExc /\ ~Truthy(rec.exc_text)
                  THEN <<excText>> ELSE rec.exc_text
        rec2 == [rec EXCEPT !.exc_text = cached]
    IN [rec  |-> rec2,
        text |-> [fmt       |-> which,
                  asctime   |-> IF which = "std" THEN <<rec.created>> ELSE <<>>,
                  levelname |-> LevelName(rec.levelno),
                  message   |-> rec.msg,
                  exc       |-> IF Truthy(cached) THEN cached ELSE <<>>,
                  stack     |-> IF rec.stack_info # "" THEN stackText ELSE ""]]

StdFormat(rec) ==
    FormatWith("std", rec,
               IF rec.exc_info # NoExc THEN StdFormatException(rec.exc_info)
               ELSE [kind |-> "", type |-> "", text |-> "", frames |-> FALSE],
               StdFormatStack(rec.stack_info))

\* A record as the file sink's own driver makes it: INFO, no exception.
PlainRecord(t) ==
    [created |-> t, levelno |-> INFO, msg |-> "m", exc_info |-> NoExc,
     exc_text |-> <<>>, stack_info |-> ""]

-----------------------------------------------------------------------------
(* Faults: what can go wrong inside one emit call.                         *)
(* fault.at names the call that raises; kind "raise" is an ordinary        *)
(* exception, kind "intr" is KeyboardInterrupt / SystemExit, kind "race"   *)
(* (of makedirs) is another process creating the directory while makedirs  *)
(* runs, so that makedirs raises and the directory exists.                 *)

NoFault == [at |-> "none", kind |-> "none"]

FileSteps == {"strftime", "abspath", "close", "makedirs", "chmod", "open", "format", "write"}

\* time.gmtime and time.localtime raise for a timestamp out of range, and for
\* no other.
FileFaults ==
    ({NoFault} \cup [at : FileSteps, kind : {"raise", "intr"}]
               \cup {[at |-> "makedirs", kind |-> "race"]})
        \ {[at |-> "strftime", kind |-> "raise"]}

Hit(fault, step, kind) == fault.at = step /\ fault.kind = kind

\* The call named at raises: kind "raise" puts an ordinary exception in
\* flight, kind "intr" a KeyboardInterrupt or SystemExit.
Raise(f, at, kind) ==
    [f EXCEPT !.exc = IF kind = "intr" THEN "intr" ELSE "error",
              !.fired = [at |-> at, kind |-> kind]]

Did(f, op, res) == [f EXCEPT !.ops = Append(@, [op |-> op, res |-> res])]

-----------------------------------------------------------------------------
(* StrftimeHandler *)

\* A sentinel that is the path a template resolves to.
Dot_Resolvable == <<"d0">>

\* line 60: the value self.filestr is given at construction.
Dot == <<".">>

IsDir(ds, path) == path = Dot \/ path \in ds

\* The frame an emit call works on: the handler's fields, the file system,
\* the calls made so far (ops), the exception in flight (exc: "none",
\* "error" or "intr") and the number of handleError calls (hnd).
Frame(rec) ==
    [rec |-> rec, filestr |-> filestr, baseFilename |-> baseFilename, stream |-> stream,
     dirs |-> dirs, handles |-> handles,
     ops |-> <<>>, exc |-> "none", fired |-> NoFault, hnd |-> 0,
     changed |-> FALSE, resolved |-> <<>>, wrote |-> <<>>]

\* lines 68-72: resolve the record's timestamp to a path.
ResolvePath(t) ==
    IF utc THEN Strftime(filefmt, Gmtime(t)) ELSE Strftime(filefmt, Localtime(t))

\* lines 75-76: record the new path.  os.path.abspath calls os.getcwd for a
\* relative path, which raises when the working directory is gone.
SwapPath(f, new, fault) ==
    LET f1 == [f EXCEPT !.filestr = new, !.changed = TRUE]
    IN IF Hit(fault, "abspath", "intr") THEN Raise(f1, "abspath", "intr")
       ELSE IF Hit(fault, "abspath", "raise") /\ ~IsAbs(new) THEN Raise(f1, "abspath", "raise")
       ELSE [f1 EXCEPT !.baseFilename = Abspath(new)]

\* lines 77-79: close the open stream.  A close() that raises has still
\* closed the file; self.stream is reset only when close() returns.
CloseStream(f, fault) ==
    IF f.stream = <<>> THEN f
    ELSE IF Hit(fault, "close", "intr") THEN Raise(f, "close", "intr")
    ELSE LET h == f.stream[1]
             f1 == [f EXCEPT !.handles[h.name] = IF h.closed THEN @ ELSE @ - 1,
                             !.stream = <<[h EXCEPT !.closed = TRUE]>>]
         IN IF Hit(fault, "close", "raise")
            THEN Raise(Did(f1, "close", "err"), "close", "raise")
            ELSE [Did(f1, "close", "ok") EXCEPT !.stream = <<>>]

\* A chmod made whether or not a mode was given.
ChmodPath_Unconditional(f, fault) ==
    IF Hit(fault, "chmod", "intr") THEN Raise(f, "chmod", "intr")
    ELSE IF Hit(fault, "chmod", "raise")
         THEN [Did(f, "chmod", "err") EXCEPT !.fired = fault]
    ELSE Did(f, "chmod", "ok")

\* A chmod whose failure is not swallowed.
ChmodPath_Fatal(f, fault) ==
    IF chmod = <<>> THEN f
    ELSE IF Hit(fault, "chmod", "intr") THEN Raise(f, "chmod", "intr")
    ELSE IF Hit(fault, "chmod", "raise")
         THEN Raise(Did(f, "chmod", "err"), "chmod", "raise")
    ELSE Did(f, "chmod", "ok")

\* lines 84-85: the best-effort chmod of a directory makedirs just made.
\* Its OSError is caught at line 86 and the directory exists, so it is swallowed.
ChmodPath(f, fault) ==
    IF chmod = <<>> THEN f
    ELSE IF Hit(fault, "chmod", "intr") THEN Raise(f, "chmod", "intr")
    ELSE IF Hit(fault, "chmod", "raise")
         THEN [Did(f, "chmod", "err") EXCEPT !.fired = fault]
    ELSE Did(f, "chmod", "ok")

\* A makedirs whose "already exists" is not told from other failures.
MakePath_ExistsIsError(f, fault) ==
    LET path == IF Dirname(f.baseFilename) = <<>> THEN Dot ELSE Dirname(f.baseFilename)
    IN IF Hit(fault, "makedirs", "intr") THEN Raise(f, "makedirs", "intr")
       ELSE IF IsDir(f.dirs, path) \/ Hit(fault, "makedirs", "raise")
            THEN Raise(Did(f, "makedirs", "err"), "makedirs", "raise")
       ELSE IF Hit(fault, "makedirs", "race")
            THEN Raise(Did([f EXCEPT !.dirs = @ \cup Prefixes(path)], "makedirs", "err"),
                       "makedirs", "raise")
       ELSE ChmodPath(Did([f EXCEPT !.dirs = @ \cup Prefixes(path)], "makedirs", "ok"),
                      fault)

\* A makedirs whose failure is dropped whether or not the directory exists.
MakePath_ErrorIgnored(f, fault) ==
    LET path == IF Dirname(f.baseFilename) = <<>> THEN Dot ELSE Dirname(f.baseFilename)
    IN IF Hit(fault, "makedirs", "intr") THEN Raise(f, "makedirs", "intr")
       ELSE IF IsDir(f.dirs, path) THEN Did(f, "makedirs", "exists")
       ELSE IF Hit(fault, "makedirs", "race")
            THEN Did([f EXCEPT !.dirs = @ \cup Prefixes(path), !.fired = fault],
                     "makedirs", "raced")
       ELSE IF Hit(fault, "makedirs", "raise")
            THEN [Did(f, "makedirs", "err") EXCEPT !.fired = fault]
       ELSE ChmodPath(Did([f EXCEPT !.dirs = @ \cup Prefixes(path)], "makedirs", "ok"),
                      fault)

\* lines 81-88: create the directory of the new path.
MakePath(f, fault) ==
    LET path == IF Dirname(f.baseFilename) = <<>> THEN Dot ELSE Dirname(f.baseFilename)
    IN IF Hit(fault, "makedirs", "intr") THEN Raise(f, "makedirs", "intr")
       ELSE IF IsDir(f.dirs, path) THEN Did(f, "makedirs", "exists")
       ELSE IF Hit(fault, "makedirs", "race")
            THEN Did([f EXCEPT !.dirs = @ \cup Prefixes(path), !.fired = fault],
                     "makedirs", "raced")
       ELSE IF Hit(fault, "makedirs", "raise")
            THEN Raise(Did(f, "makedirs", "err"), "makedirs", "raise")
       ELSE ChmodPath(Did([f EXCEPT !.dirs = @ \cup Prefixes(path)], "makedirs", "ok"),
                      fault)

\* lines 74-88: the block taken when the resolved path changed.
Rollover(f, new, fault) ==
    LET f1 == SwapPath(f, new, fault)
        f2 == IF f1.exc # "none" THEN f1 ELSE CloseStream(f1, fault)
    IN IF f2.exc # "none" THEN f2 ELSE MakePath(f2, fault)

\* FileHandler._open: open(self.baseFilename, 'a').
OpenStream(f, fault) ==
    IF Hit(fault, "open", "intr") THEN Raise(f, "open", "intr")
    ELSE IF \/ Hit(fault, "open", "raise")
            \/ f.baseFilename \notin AllFiles
            \/ ~IsDir(f.dirs, Dirname(f.baseFilename))
         THEN Raise(Did(f, "open", "err"), "open", "raise")
    ELSE Did([f EXCEPT !.stream = <<[name |-> f.baseFilename, closed |-> FALSE]>>,
                       !.handles[f.baseFilename] = @ + 1],
             "open", "ok")

\* logging.Handler.handleError: report on stderr and return.
HandleError(f) == [f EXCEPT !.hnd = @ + 1, !.exc = "none"]

\* logging.StreamHandler.emit: format, write, flush; an Exception goes to
\* handleError there, KeyboardInterrupt and SystemExit pass through.
StreamHandlerEmit(f, fault) ==
    IF Hit(fault, "format", "intr") THEN Raise(f, "format", "intr")
    ELSE IF Hit(fault, "format", "raise") THEN HandleError(Raise(f, "format", "raise"))
    ELSE LET fmt == StdFormat(f.rec)
             f1 == [f EXCEPT !.rec = fmt.rec]
         IN IF Hit(fault, "write", "intr") THEN Raise(f1, "write", "intr")
            ELSE IF Hit(fault, "write", "raise") \/ f.stream[1].closed
                 THEN HandleError(Raise(Did(f1, "write", "err"), "write", "raise"))
            ELSE Did([f1 EXCEPT !.wrote = <<[name |-> f.stream[1].name,
                                             text |-> fmt.text]>>],
                     "write", "ok")

\* line 89, logging.FileHandler.emit: open lazily, then StreamHandler.emit.
FileHandlerEmit(f, fault) ==
    LET f1 == IF f.stream = <<>> THEN OpenStream(f, fault) ELSE f
    IN IF f1.exc # "none" THEN f1 ELSE StreamHandlerEmit(f1, fault)

\* lines 90-93: interrupts are re-raised, anything else goes to handleError.
StrftimeCatch(f) == IF f.exc = "error" THEN HandleError(f) ELSE f

\* An emit that rolls over on every record, whatever the path.
StrftimeEmitFrame_AlwaysRollover(f, fault) ==
    LET new == ResolvePath(f.rec.created)
        f0 == IF Hit(fault, "strftime", "intr") THEN Raise(f, "strftime", "intr")
              ELSE IF ~InRange(f.rec.created) THEN Raise(f, "strftime", "raise")
              ELSE [f EXCEPT !.resolved = <<new>>]
        f1 == IF f0.exc # "none" THEN f0 ELSE Rollover(f0, new, fault)
        f2 == IF f1.exc # "none" THEN f1 ELSE FileHandlerEmit(f1, fault)
    IN StrftimeCatch(f2)

\* An emit that goes through the path-changed block again whenever no
\* stream is open.
StrftimeEmitFrame_RetryMakedirs(f, fault) ==
    LET new == ResolvePath(f.rec.created)
        f0 == IF Hit(fault, "strftime", "intr") THEN Raise(f, "strftime", "intr")
              ELSE IF ~InRange(f.rec.created) THEN Raise(f, "strftime", "raise")
              ELSE [f EXCEPT !.resolved = <<new>>]
        f1 == IF f0.exc # "none" \/ (new = f0.filestr /\ f0.stream # <<>>) THEN f0
              ELSE Rollover(f0, new, fault)
        f2 == IF f1.exc # "none" THEN f1 ELSE FileHandlerEmit(f1, fault)
    IN StrftimeCatch(f2)

\* lines 63-93: StrftimeHandler.emit as a function of the frame.
StrftimeEmitFrame(f, fault) ==
    LET new == ResolvePath(f.rec.created)
        f0 == IF Hit(fault, "strftime", "intr") THEN Raise(f, "strftime", "intr")
              ELSE IF ~InRange(f.rec.created) THEN Raise(f, "strftime", "raise")
              ELSE [f EXCEPT !.resolved = <<new>>]
        f1 == IF f0.exc # "none" \/ new = f0.filestr THEN f0
              ELSE Rollover(f0, new, fault)
        f2 == IF f1.exc # "none" THEN f1 ELSE FileHandlerEmit(f1, fault)
    IN StrftimeCatch(f2)

-----------------------------------------------------------------------------
(* MsgOutFormatter and MsgOutHandler *)

\* A comparison that takes subclasses of BadStatus for BadStatus (isinstance).
IsBadStatus_OrSubclass(type) == type \in {"BadStatus", "SubBadStatus"}

\* lines 116 and 131: the comparison of an exception's type with BadStatus.
IsBadStatus(type) == type = "BadStatus"

\* lines 130-134: MsgOutFormatter.formatException.  For a BadStatus, its
\* message.  Otherwise traceback.format_exception(type, value, None): no
\* frames of the exception itself, but an exception it is chained to
\* (__cause__ or __context__) is rendered in full, with the frames of its
\* own traceback.
MsgOutFormatException(ei) ==
    IF IsBadStatus(ei[1].type)
    THEN [kind |-> "message", type |-> "", text |-> ei[1].message, frames |-> FALSE]
    ELSE [kind |-> "typemsg", type |-> ei[1].type, text |-> ei[1].message,
          frames |-> ei[1].chained]

\* lines 136-137: MsgOutFormatter.formatStack.
MsgOutFormatStack(si) == ""

\* self.format(record) with the MsgOutFormatter setup() installs (line 165).
MsgOutFormat(rec) ==
    FormatWith("msgout", rec,
               IF rec.exc_info # NoExc THEN MsgOutFormatException(rec.exc_info)
               ELSE [kind |-> "", type |-> "", text |-> "", frames |-> FALSE],
               MsgOutFormatStack(rec.stack_info))

\* line 108: drop the exception text another formatter cached on the record.
ClearBefore(rec) == [rec EXCEPT !.exc_text = <<>>]

\* An emit that leaves its formatter's exception text on the record.
ClearAfter_Keep(rec) == rec

\* line 110: drop the exception text this formatter cached on the record.
ClearAfter(rec) == [rec EXCEPT !.exc_text = <<>>]

\* lines 114-117: the status code, from the exception in flight (sys.exc_info).
StatusCode(active) ==
    IF active # NoExc /\ IsBadStatus(active[1].type) THEN active[1].status ELSE 0

\* A routing that sends WARNING to the status channel.
Route_WarningIsStatus(msg, rec, active) ==
    IF rec.levelno <= WARNING THEN [fn |-> "msgout", msg |-> msg, status |-> 0]
    ELSE [fn |-> "ersout", msg |-> msg, status |-> StatusCode(active)]

\* A routing that takes the status code from the record's own exc_info.
Route_RecordStatus(msg, rec, active) ==
    IF rec.levelno < WARNING THEN [fn |-> "msgout", msg |-> msg, status |-> 0]
    ELSE [fn |-> "ersout", msg |-> msg, status |-> StatusCode(rec.exc_info)]

\* lines 111-118: the external call, chosen by level.
Route(msg, rec, active) ==
    IF rec.levelno < WARNING THEN [fn |-> "msgout", msg |-> msg, status |-> 0]
    ELSE [fn |-> "ersout", msg |-> msg, status |-> StatusCode(active)]

BridgeFrame(rec) ==
    [rec |-> rec, calls |-> <<>>, exc |-> "none", fired |-> NoFault, hnd |-> 0]

\* An emit whose catch-all also takes KeyboardInterrupt and SystemExit.
MsgOutCatch_SwallowInterrupt(f) == IF f.exc # "none" THEN HandleError(f) ELSE f

\* lines 119-122: interrupts are re-raised, anything else goes to handleError.
MsgOutCatch(f) == IF f.exc = "error" THEN HandleError(f) ELSE f

\* lines 101-122: MsgOutHandler.emit.  active is the exception in flight in
\* the caller.  A format that raises does so before it caches anything.
MsgOutEmitFrame(f, active, fault) ==
    LET f1 == [f EXCEPT !.rec = ClearBefore(f.rec)]
        fmt == MsgOutFormat(f1.rec)
        f2 == IF fault.at = "format" THEN Raise(f1, "format", fault.kind)
              ELSE [f1 EXCEPT !.rec = ClearAfter(fmt.rec)]
        call == Route(fmt.text, f2.rec, active)
        f3 == IF f2.exc # "none" THEN f2
              ELSE IF Hit(fault, "call", "intr") THEN Raise(f2, "call", "intr")
              ELSE IF Hit(fault, "call", "raise")
                   THEN Raise([f2 EXCEPT !.calls = Append(@, call)], "call", "raise")
              ELSE [f2 EXCEPT !.calls = Append(@, call)]
    IN MsgOutCatch(f3)

BridgeFaults == {NoFault} \cup [at : {"format", "call"}, kind : {"raise", "intr"}]

-----------------------------------------------------------------------------
(* The records and exceptions the handlers are driven with *)

MaxStatus == 2     \* the status of a BadStatus in flight ranges over 1 .. MaxStatus

Levels == {DEBUG, INFO, WARNING, ERROR}

Messages == {"bad state", ""}

\* chained: the exception has a __cause__ or __context__ with a traceback.
Exc(type, status, message) ==
    <<[type |-> type, status |-> status, message |-> message, chained |-> FALSE]>>

\* The exception e, raised while another was being handled.
Chained(e) == <<[e[1] EXCEPT !.chained = TRUE]>>

\* Exceptions other than BadStatus: a subclass of it, and an unrelated one.
OtherExcs == {Exc("SubBadStatus", 1, "bad state"), Exc("ValueError", 0, "bad state")}

\* What a record may carry as exc_info.
RecordExcs ==
    {NoExc} \cup {Exc("BadStatus", 1, m) : m \in Messages} \cup OtherExcs
            \cup {Chained(Exc("ValueError", 0, "bad state"))}

\* What a record may carry as stack_info (the stack_info=True of a logging call).
StackInfos == {"", "Stack (most recent call last): frames"}

\* What may be in flight (sys.exc_info) when emit is called.
ActiveExcs ==
    {NoExc} \cup {Exc("BadStatus", st, "bad state") : st \in 1 .. MaxStatus} \cup OtherExcs

LogRecord(t, level, ei) ==
    [created |-> t, levelno |-> level, msg |-> "m", exc_info |-> ei,
     exc_text |-> <<>>, stack_info |-> ""]

-----------------------------------------------------------------------------
(* The handlers' behaviours *)

NoLast ==
    [sink |-> "none", rec |-> PlainRecord(0), after |-> PlainRecord(0),
     active |-> NoExc, resolved |-> <<>>, changed |-> FALSE,
     fired |-> NoFault, ops |-> <<>>, wrote |-> <<>>, calls |-> <<>>,
     isdir |-> FALSE, handled |-> 0, outcome |-> "none"]

NoOut == [file |-> <<>>, console |-> <<>>, bridge |-> <<>>]

\* The handlers constructed: the one setup() builds (lines 155-156), one with
\* the constructor's defaults (utc=False, chmod=None) on the same template,
\* one on a relative template without a directory part, one on the
\* template '.', and none at all (setup() without a taskname, line 153).
Constructions ==
    { [filefmt |-> "abs", utc |-> TRUE, chmod |-> <<"02777">>],
      [filefmt |-> "abs", utc |-> FALSE, chmod |-> <<>>],
      [filefmt |-> "rel", utc |-> FALSE, chmod |-> <<>>],
      [filefmt |-> "dot", utc |-> FALSE, chmod |-> <<>>],
      [filefmt |-> "none", utc |-> FALSE, chmod |-> <<>>] }

\* StrftimeHandler.__init__ (lines 57-61): filestr is '.', the FileHandler is
\* built with delay=1, so no stream is open and baseFilename is abspath('.').
Init ==
    /\ \E c \in Constructions :
          utc = c.utc /\ chmod = c.chmod /\ filefmt = c.filefmt
    /\ filestr = Dot
    /\ baseFilename = Abspath(Dot)
    /\ stream = <<>>
    /\ dirs = {<<"/">>, Cwd}
    /\ handles = [p \in AllFiles |-> 0]
    /\ last = NoLast
    /\ record = <<>>
    /\ pending = <<>>
    /\ out = NoOut
    /\ files = [p \in AllFiles |-> <<>>]
    /\ emitted = <<>>
    /\ lock = 0
    /\ thread = [th \in {1, 2} |-> [pc |-> "idle", t |-> 0]]

\* One call of StrftimeHandler.emit(rec).  last.isdir is whether the
\* directory of self.baseFilename exists when the call ends.
StrftimeEmit(rec, fault) ==
    LET f == StrftimeEmitFrame(Frame(rec), fault)
    IN /\ filefmt # "none"
       /\ filestr' = f.filestr
       /\ baseFilename' = f.baseFilename
       /\ stream' = f.stream
       /\ dirs' = f.dirs
       /\ handles' = f.handles
       /\ last' = [NoLast EXCEPT
                     !.sink = "file", !.rec = rec, !.after = f.rec,
                     !.resolved = f.resolved, !.changed = f.changed,
                     !.fired = f.fired, !.ops = f.ops, !.wrote = f.wrote,
                     !.isdir = IsDir(f.dirs, Dirname(f.baseFilename)),
                     !.handled = f.hnd,
                     !.outcome = IF f.exc = "none" THEN "returned" ELSE "raised"]
       /\ UNCHANGED <<utc, chmod, filefmt>>

\* One call of MsgOutHandler.emit(rec) with exception active in flight.
MsgOutEmit(rec, active, fault) ==
    LET f == MsgOutEmitFrame(BridgeFrame(rec), active, fault)
    IN /\ last' = [NoLast EXCEPT
                     !.sink = "bridge", !.rec = rec, !.after = f.rec,
                     !.active = active, !.fired = f.fired, !.calls = f.calls,
                     !.handled = f.hnd,
                     !.outcome = IF f.exc = "none" THEN "returned" ELSE "raised"]
       /\ UNCHANGED sinkVars

\* Another process creates the directory of some day's log file.
OtherProcessMkdir(d) ==
    LET path == Dirname(Abspath(Strftime(filefmt, [day |-> d, tod |-> 0])))
    IN /\ filefmt # "none"
       /\ path \notin dirs
       /\ dirs' = dirs \cup Prefixes(path)
       /\ UNCHANGED <<utc, chmod, filefmt, filestr, baseFilename, stream,
                      handles, last, record, pending, out, files, emitted, lock, thread>>

\* The handlers driven one emit call at a time.  The bridge keeps no state and
\* reads none of the file handler's, so its calls are explored in the wiring
\* without a file handler.
Next ==
    \/ \E t \in Times, fault \in FileFaults :
          /\ StrftimeEmit(PlainRecord(t), fault)
          /\ UNCHANGED <<record, pending, out, files, emitted, lock, thread>>
    \/ \E d \in Days : OtherProcessMkdir(d)
    \/ \E level \in Levels, ei \in RecordExcs, active \in ActiveExcs,
          fault \in BridgeFaults, si \in StackInfos :
          /\ filefmt = "none"
          /\ MsgOutEmit([LogRecord(0, level, ei) EXCEPT !.stack_info = si], active, fault)
          /\ UNCHANGED <<record, pending, out, files, emitted, lock, thread>>

Spec == Init /\ [][Next]_vars

-----------------------------------------------------------------------------
(* setup() and the dispatch of one record to the handlers it installs *)

\* lines 154-169: the handlers setup() adds to the root logger.
Installed ==
    IF filefmt = "none" THEN {"console", "bridge"} ELSE {"file", "console", "bridge"}

\* A wiring whose bridge is left at level 0 like the other handlers.
HandlerLevel_NoFilter(h) == 0

\* line 168: the bridge handles INFO and above; the other two are left at 0.
HandlerLevel(h) == IF h = "bridge" THEN INFO ELSE 0

\* line 171: the root logger's level.
RootLevel == INFO

Orders(hs) ==
    { o \in UNION { [1 .. n -> hs] : n \in {Cardinality(hs)} } :
          \A i, j \in 1 .. Len(o) : i # j => o[i] # o[j] }

\* The level set on the logger the call is made on: 0 (not set, as for
\* logging.getLogger(taskname), which then takes the root's level) or DEBUG
\* (as logging.getLogger('drama').setLevel(logging.DEBUG) would set).
LoggerLevels == {0, DEBUG}

\* logging.Logger.getEffectiveLevel.
EffectiveLevel(own) == IF own = 0 THEN RootLevel ELSE own

\* A logging call at the given level on a logger whose own level is own:
\* below the logger's effective level no handler is called; otherwise the
\* record is to be handed to every handler of the root logger.  order is
\* the order the handlers are called in; active is the exception in flight
\* in the caller.
Log(level, ei, active, order, own) ==
    /\ pending = <<>>
    /\ record' = <<[rec |-> LogRecord(0, level, ei), active |-> active, order |-> order]>>
    /\ pending' = IF level >= EffectiveLevel(own) THEN order ELSE <<>>
    /\ out' = NoOut
    /\ last' = NoLast
    /\ UNCHANGED <<sinkVars, files, emitted, lock, thread>>

\* lines 160-162: the console handler, a logging.StreamHandler on stderr with
\* the logging.Formatter of line 152.
ConsoleEmitFrame(rec) == StdFormat(rec)

\* Logger.callHandlers hands the record to the next handler, if the record's
\* level reaches the handler's.
Handle ==
    /\ pending # <<>>
    /\ UNCHANGED <<files, emitted, lock, thread>>
    /\ LET h == Head(pending)
           r == record[1]
       IN /\ pending' = Tail(pending)
          /\ IF r.rec.levelno < HandlerLevel(h)
             THEN UNCHANGED <<sinkVars, last, record, out>>
             ELSE IF h = "file"
             THEN /\ StrftimeEmit(r.rec, NoFault)
                  /\ record' = <<[r EXCEPT !.rec = last'.after]>>
                  /\ out' = [out EXCEPT !.file =
                               IF last'.wrote = <<>> THEN <<>> ELSE <<last'.wrote[1].text>>]
             ELSE IF h = "console"
             THEN LET c == ConsoleEmitFrame(r.rec)
                  IN /\ record' = <<[r EXCEPT !.rec = c.rec]>>
                     /\ out' = [out EXCEPT !.console = <<c.text>>]
                     /\ last' = [NoLast EXCEPT !.sink = "console", !.rec = r.rec,
                                               !.after = c.rec, !.outcome = "returned"]
                     /\ UNCHANGED sinkVars
             ELSE /\ MsgOutEmit(r.rec, r.active, NoFault)
                  /\ record' = <<[r EXCEPT !.rec = last'.after]>>
                  /\ out' = [out EXCEPT !.bridge = last'.calls]

NextSetup ==
    \/ \E level \in Levels, ei \in RecordExcs, order \in Orders(Installed),
          own \in LoggerLevels :
          \E active \in {NoExc, ei} : Log(level, ei, active, order, own)
    \/ Handle

SpecSetup == Init /\ [][NextSetup]_vars

-----------------------------------------------------------------------------
(* Properties *)

OpOk(op) == [op |-> op, res |-> "ok"]

Has(ops, e) == \E i \in 1 .. Len(ops) : ops[i] = e

Calls(ops, name) == { i \in 1 .. Len(ops) : ops[i].op = name }

Opens(ops) == Cardinality({ i \in 1 .. Len(ops) : ops[i] = OpOk("open") })

OpenHandles == { <<p, k>> \in AllFiles \X (1 .. 2) : k <= handles[p] }

\* The file the record of the last emit belongs in.
OwnPath == Abspath(ResolvePath(last.rec.created))

Resolvable(rec) == InRange(rec.created)

\* C1: every record written is written to the file its own timestamp
\* resolves to, and when the path changes the handle open before is closed
\* before the handle for the new path is opened.
C1_WrittenToOwnPath ==
    last.sink = "file" =>
        /\ last.wrote # <<>> => last.wrote[1].name = OwnPath
        /\ (last.changed /\ Has(last.ops, OpOk("open"))) =>
              \A p \in AllFiles : p # baseFilename => handles[p] = 0

\* C2: between emit calls at most one file handle is open, and an open
\* handle is the handle of the file at self.filestr / self.baseFilename.
C2_OneHandleAtCurrentPath ==
    /\ Cardinality(OpenHandles) <= 1
    /\ \A p \in AllFiles :
          handles[p] > 0 => /\ filestr # Dot
                            /\ p = Abspath(filestr)
                            /\ p = baseFilename

FileEmitStep == \E t \in Times, fault \in FileFaults : StrftimeEmit(PlainRecord(t), fault)

NoRolloverCalls(ops) ==
    \A i \in 1 .. Len(ops) : ops[i].op \notin {"close", "makedirs", "chmod"}

Failures == {"strftime", "abspath", "close", "makedirs", "open", "format", "write", "call"}

\* An ordinary exception raised in path resolution, close, directory
\* creation, open, formatting, write or the external call, in either handler,
\* ends in one handleError call and emit returns normally.
FailuresHandled ==
    (last.fired.kind = "raise" /\ last.fired.at \in Failures) =>
        /\ last.outcome = "returned"
        /\ last.handled = 1

\* An emit of the file handler in which nothing fails from outside: the
\* timestamp is in range and no call is made to raise.
SoundFileEmitStep == \E t \in 0 .. MaxTime : StrftimeEmit(PlainRecord(t), NoFault)

\* C4: no failure inside either emit propagates to the caller: each ends in
\* handleError and emit returns normally, and the sink is left usable: the
\* emit that follows a failed one, nothing failing from outside in it and
\* the directory of its file in place, writes its record.
C4_FailuresHandledSinkUsable ==
    [][/\ FailuresHandled'
       /\ (/\ last.sink = "file"
           /\ last.fired.kind = "raise" /\ last.fired.at \in Failures
           /\ SoundFileEmitStep
           /\ last'.isdir)
          => last'.wrote # <<>>]_vars

\* The text the bridge's formatter gives the record of the last emit.
BridgeText == MsgOutFormat([last.rec EXCEPT !.exc_text = <<>>]).text

ActiveStatus ==
    IF last.active # NoExc /\ last.active[1].type = "BadStatus"
    THEN last.active[1].status ELSE 0

\* C5: a MsgOutHandler.emit that completes without failure makes exactly one
\* external call: msgout with the formatted text for a level below WARNING,
\* ersout otherwise, with status 0 when no BadStatus is in flight and with
\* its status field when one is.
C5_OneCallByLevel ==
    (last.sink = "bridge" /\ last.fired = NoFault) =>
        /\ Len(last.calls) = 1
        /\ last.calls[1].msg = BridgeText
        /\ last.rec.levelno < WARNING => last.calls[1].fn = "msgout"
        /\ last.rec.levelno >= WARNING =>
              /\ last.calls[1].fn = "ersout"
              /\ last.calls[1].status = ActiveStatus

C5_Witness ==
    /\ last.sink = "bridge"
    /\ last.rec.levelno = ERROR
    /\ last.active = Exc("BadStatus", 2, "bad state")
    /\ Len(last.calls) = 1
    /\ last.calls[1].fn = "ersout"
    /\ last.calls[1].status = 2

\* The exception text the claim expects in the bridge's message.
ExpectedExcText(ei) ==
    IF ei = NoExc THEN <<>>
    ELSE IF ei[1].type = "BadStatus"
         THEN IF ei[1].message = "" THEN <<>>
              ELSE <<[kind |-> "message", type |-> "", text |-> ei[1].message,
                      frames |-> FALSE]>>
    ELSE <<[kind |-> "typemsg", type |-> ei[1].type, text |-> ei[1].message,
            frames |-> ei[1].chained]>>

\* C6: on the error channel the status code is decided by the exception in
\* flight alone (its status if it is a BadStatus, else 0) and the exception
\* text in the message by record.exc_info alone.
C6_StatusFromActiveTextFromRecord ==
    (last.sink = "bridge" /\ last.calls # <<>> /\ last.rec.levelno >= WARNING) =>
        /\ last.calls[1].status = ActiveStatus
        /\ last.calls[1].msg.exc = ExpectedExcText(last.rec.exc_info)

\* A generic exception on the record, a BadStatus in flight.
C6_Witness ==
    /\ last.sink = "bridge"
    /\ last.rec.exc_info = Exc("ValueError", 0, "bad state")
    /\ last.active = Exc("BadStatus", 2, "bad state")
    /\ last.calls # <<>>
    /\ last.calls[1].status = 2
    /\ last.calls[1].msg.exc[1].kind = "typemsg"

\* C7: when the path changes and the directory is there once makedirs has
\* run (made earlier, made by another process before or during makedirs, or
\* made by makedirs), whatever makedirs raised, emit reports no error and
\* writes the record; and a file opened after a path change is opened after
\* makedirs, with the whole directory chain in place.
C7_ExistingDirectoryIsNoError ==
    (last.sink = "file" /\ last.changed) =>
        /\ ( /\ last.resolved # <<>>
             /\ last.isdir
             /\ last.fired.at \in {"none", "makedirs"}
             /\ last.fired.kind # "intr" )
           => /\ last.handled = 0
              /\ last.outcome = "returned"
              /\ last.wrote # <<>>
              /\ last.wrote[1].name = OwnPath
        /\ \A i \in Calls(last.ops, "open") :
              /\ \E j \in Calls(last.ops, "makedirs") : j < i
              /\ last.ops[i].res = "ok" => Prefixes(Dirname(baseFilename)) \subseteq dirs

C7_Witness ==
    /\ last.sink = "file"
    /\ last.changed
    /\ Has(last.ops, [op |-> "makedirs", res |-> "exists"])
    /\ last.wrote # <<>>

\* C8: when chmod is set and os.chmod fails on the directory just made, emit
\* succeeds: nothing is raised, handleError is not called, the record is
\* written to the resolved path.
C8_ChmodFailureSwallowed ==
    (last.sink = "file" /\ Has(last.ops, [op |-> "chmod", res |-> "err"])) =>
        /\ last.outcome = "returned"
        /\ last.handled = 0
        /\ last.wrote # <<>>
        /\ last.wrote[1].name = OwnPath

C8_Witness ==
    /\ last.sink = "file"
    /\ last.fired = [at |-> "chmod", kind |-> "raise"]
    /\ Has(last.ops, [op |-> "makedirs", res |-> "ok"])
    /\ last.wrote # <<>>

\* C9: a KeyboardInterrupt or SystemExit raised at any step of either emit is
\* re-raised to the caller and never handed to handleError.
C9_InterruptsPropagate ==
    last.fired.kind = "intr" =>
        /\ last.outcome = "raised"
        /\ last.handled = 0

C9_Witness ==
    /\ last.sink = "bridge"
    /\ last.fired = [at |-> "call", kind |-> "intr"]
    /\ last.outcome = "raised"

\* The record being dispatched, as the logging call made it.
Pristine == [record[1].rec EXCEPT !.exc_text = <<>>]

ExcKind(text) == IF text.exc = <<>> THEN "none" ELSE text.exc[1].kind

\* C10: whatever the order the file handler, the console handler and the
\* bridge are handed a record in, each emits the text it would emit handed
\* the record alone: the bridge never a traceback another formatter cached
\* on the record, the others never the bridge formatter's short text.
C10_TextIndependentOfOrder ==
    record # <<>> =>
        /\ out.file # <<>> =>
              /\ out.file[1] = StdFormat(Pristine).text
              /\ ExcKind(out.file[1]) \in {"none", "traceback"}
        /\ out.console # <<>> =>
              /\ out.console[1] = StdFormat(Pristine).text
              /\ ExcKind(out.console[1]) \in {"none", "traceback"}
        /\ out.bridge # <<>> =>
              /\ out.bridge[1].msg = MsgOutFormat(Pristine).text
              /\ ExcKind(out.bridge[1].msg) # "traceback"

\* A record with a BadStatus, handed to the file handler, then the bridge,
\* then the console.
C10_Witness ==
    /\ record # <<>>
    /\ pending = <<>>
    /\ record[1].order = <<"file", "bridge", "console">>
    /\ record[1].rec.exc_info = Exc("BadStatus", 1, "bad state")
    /\ out.file # <<>> /\ out.console # <<>> /\ out.bridge # <<>>
    /\ ExcKind(out.console[1]) = "traceback"
    /\ ExcKind(out.bridge[1].msg) = "message"

\* The last emit was one of the two handlers of drama/log.py.
OwnSink == last.sink \in {"file", "bridge"}

\* C11 as stated: StrftimeHandler.emit and MsgOutHandler.emit leave every
\* field of the record unchanged.
C11_RecordUnchanged == OwnSink => last.after = last.rec

\* C11 amended: the two emits leave every field of the record unchanged
\* but exc_text: the bridge leaves it None whatever it was, and the file
\* handler's formatter caches the traceback text there when the record
\* carries an exception and no text is cached yet.
C11_OnlyExcTextChanges ==
    OwnSink =>
        /\ [last.after EXCEPT !.exc_text = last.rec.exc_text] = last.rec
        /\ last.sink = "bridge" => last.after.exc_text = <<>>
        /\ (last.sink = "file" /\ last.wrote # <<>>) =>
              last.after.exc_text =
                 IF last.rec.exc_info # NoExc /\ ~Truthy(last.rec.exc_text)
                 THEN <<StdFormatException(last.rec.exc_info)>>
                 ELSE last.rec.exc_text

\* The file handler caching a traceback on a record that had none.
C11_Witness ==
    /\ last.sink = "file"
    /\ last.wrote # <<>>
    /\ last.rec.exc_info # NoExc
    /\ last.rec.exc_text = <<>>
    /\ last.after.exc_text = <<StdFormatException(last.rec.exc_info)>>

\* C12: MsgOutFormatter.formatException gives exactly the message, without
\* a trace, for a BadStatus, and for any other type the type/message
\* rendering without a frame listing; MsgOutFormatter.formatStack gives the
\* empty string whatever the stack.
C12_ShortExceptionTextNoFrames ==
    (last.sink = "bridge" /\ last.calls # <<>>) =>
        LET ei == last.rec.exc_info
            msg == last.calls[1].msg
        IN /\ msg.stack = ""
           /\ (ei # NoExc /\ ei[1].type = "BadStatus" /\ ei[1].message # "") =>
                 msg.exc = <<[kind |-> "message", type |-> "", text |-> ei[1].message,
                              frames |-> FALSE]>>
           /\ (ei # NoExc /\ ei[1].type # "BadStatus") =>
                 /\ msg.exc # <<>>
                 /\ msg.exc[1].kind = "typemsg"
                 /\ msg.exc[1].type = ei[1].type
                 /\ msg.exc[1].text = ei[1].message
                 /\ ~msg.exc[1].frames

C14_MakedirsFailureLosesTheRecordOnly ==
    (last.sink = "file" /\ Has(last.ops, [op |-> "makedirs", res |-> "err"])) =>
        /\ Calls(last.ops, "open") = {}
        /\ Calls(last.ops, "write") = {}
        /\ last.wrote = <<>>
        /\ last.handled = 1
        /\ last.outcome = "returned"

C14_Witness ==
    /\ last.sink = "file"
    /\ last.fired = [at |-> "makedirs", kind |-> "raise"]
    /\ ~last.isdir
    /\ last.handled = 1

-----------------------------------------------------------------------------
(* The contents of the files *)

MaxEmits == 3      \* the number of records written in a behaviour

\* line 61: the mode the FileHandler opens its file in.
OpenMode == "a"

\* open(name, mode): mode 'a' keeps what the file holds, any other empties it.
Opened(fs, ops, name) ==
    IF Has(ops, OpOk("open")) /\ OpenMode # "a" THEN [fs EXCEPT ![name] = <<>>] ELSE fs

\* The failures explored together with the contents: of os.path.abspath, of
\* close and of the write.
ContentFaults ==
    {NoFault} \cup [at : {"abspath", "close", "write"}, kind : {"raise"}]

\* One call of StrftimeHandler.emit, and what it does to the files: the
\* open of FileHandler.emit, then the write to the stream.
EmitToFile(t, fault) ==
    /\ Len(emitted) < MaxEmits
    /\ StrftimeEmit(PlainRecord(t), fault)
    /\ LET fs == Opened(files, last'.ops, baseFilename')
       IN files' = IF last'.wrote = <<>> THEN fs
                   ELSE [fs EXCEPT ![last'.wrote[1].name] = Append(@, t)]
    /\ emitted' = IF last'.wrote = <<>> THEN emitted ELSE Append(emitted, t)
    /\ UNCHANGED <<record, pending, out, lock, thread>>

NextFiles == \E t \in 0 .. MaxTime, fault \in ContentFaults : EmitToFile(t, fault)

SpecFiles == Init /\ [][NextFiles]_vars

\* The records written so far whose timestamp resolves to file p, in order.
Resolving(p) == SelectSeq(emitted, LAMBDA t : Abspath(ResolvePath(t)) = p)

\* C15: whatever way the resolved path alternates between files, also
\* back to an earlier one, nothing is truncated: each file holds exactly the
\* records that resolved to it and were written, in the order of the emits.
C15_FilesHoldTheirOwnRecordsInOrder ==
    \A p \in AllFiles : files[p] = Resolving(p)

\* C16: os.chmod is called only in an emit in which the path changed, a
\* mode is set and makedirs made the directory; so never without a mode,
\* for a directory that was there already, or on an unchanged path; and
\* once at most, after makedirs.
C16_ChmodOnlyForDirectoryJustMade ==
    (last.sink = "file" /\ Calls(last.ops, "chmod") # {}) =>
        /\ last.changed
        /\ chmod # <<>>
        /\ Cardinality(Calls(last.ops, "chmod")) = 1
        /\ \A i \in Calls(last.ops, "chmod") :
              \E j \in Calls(last.ops, "makedirs") :
                 j < i /\ last.ops[j].res = "ok"

C16_Witness ==
    /\ last.sink = "file"
    /\ last.changed
    /\ chmod # <<>>
    /\ last.ops[1] = [op |-> "makedirs", res |-> "ok"]
    /\ last.ops[2] = [op |-> "chmod", res |-> "ok"]

-----------------------------------------------------------------------------
(* Two threads logging through the same StrftimeHandler.  A record reaches  *)
(* emit through logging.Handler.handle, which holds the handler's lock      *)
(* around the call; emit itself runs statement by statement.                *)

Threads == {1, 2}

\* A handle that enters emit without waiting for the lock.
LockFree_Always == TRUE

\* Handler.acquire: the lock made by Handler.__init__ is free.
LockFree == lock = 0

\* The frame a thread's statement works on.
ThreadFrame(th) == Frame(PlainRecord(thread[th].t))

\* The statement has run: the handler and the file system are as it leaves them.
Ran(f) ==
    /\ filestr' = f.filestr
    /\ baseFilename' = f.baseFilename
    /\ stream' = f.stream
    /\ dirs' = f.dirs
    /\ handles' = f.handles
    /\ UNCHANGED <<utc, chmod, filefmt>>

Goto(th, pc) == thread' = [thread EXCEPT ![th].pc = pc]

\* A thread makes a logging call with a record of time t.
Call(th, t) ==
    /\ filefmt # "none"
    /\ thread[th].pc = "idle"
    /\ thread' = [thread EXCEPT ![th] = [pc |-> "acquire", t |-> t]]
    /\ UNCHANGED <<sinkVars, last, lock>>

\* Handler.handle: self.acquire().
Acquire(th) ==
    /\ thread[th].pc = "acquire"
    /\ LockFree
    /\ lock' = th
    /\ Goto(th, "resolve")
    /\ UNCHANGED <<sinkVars, last>>

\* lines 68-74: resolve the path and compare it with self.filestr.
Resolve(th) ==
    /\ thread[th].pc = "resolve"
    /\ Goto(th, IF ResolvePath(thread[th].t) = filestr THEN "open" ELSE "swap")
    /\ UNCHANGED <<sinkVars, last, lock>>

\* lines 75-76.
Swap(th) ==
    /\ thread[th].pc = "swap"
    /\ Ran(SwapPath(ThreadFrame(th), ResolvePath(thread[th].t), NoFault))
    /\ Goto(th, "close")
    /\ UNCHANGED <<last, lock>>

\* lines 77-79.
Close(th) ==
    /\ thread[th].pc = "close"
    /\ Ran(CloseStream(ThreadFrame(th), NoFault))
    /\ Goto(th, "mkdir")
    /\ UNCHANGED <<last, lock>>

\* lines 81-88.
Mkdir(th) ==
    /\ thread[th].pc = "mkdir"
    /\ Ran(MakePath(ThreadFrame(th), NoFault))
    /\ Goto(th, "open")
    /\ UNCHANGED <<last, lock>>

\* line 89, FileHandler.emit: open the stream if there is none.  A failed
\* open goes to handleError and the call is over.
Open(th) ==
    /\ thread[th].pc = "open"
    /\ LET f == IF stream = <<>> THEN OpenStream(ThreadFrame(th), NoFault)
                ELSE ThreadFrame(th)
       IN /\ Ran(f)
          /\ Goto(th, IF f.exc = "none" THEN "write" ELSE "release")
    /\ UNCHANGED <<last, lock>>

\* line 89, StreamHandler.emit: format and write to self.stream, whatever it
\* is by now; with no stream the write raises and goes to handleError.
Write(th) ==
    /\ thread[th].pc = "write"
    /\ LET f0 == ThreadFrame(th)
           f == IF stream = <<>> THEN HandleError(Raise(f0, "write", "raise"))
                ELSE StreamHandlerEmit(f0, NoFault)
       IN /\ Ran(f)
          /\ last' = [NoLast EXCEPT
                        !.sink = "file", !.rec = f0.rec, !.after = f.rec,
                        !.fired = f.fired, !.ops = f.ops, !.wrote = f.wrote,
                        !.handled = f.hnd, !.outcome = "returned"]
    /\ Goto(th, "release")
    /\ UNCHANGED lock

\* Handler.handle: self.release().
Release(th) ==
    /\ thread[th].pc = "release"
    /\ lock' = IF lock = th THEN 0 ELSE lock
    /\ Goto(th, "idle")
    /\ UNCHANGED <<sinkVars, last>>

NextThreads ==
    /\ \E th \in Threads :
          \/ \E t \in 0 .. MaxTime : Call(th, t)
          \/ Acquire(th)
          \/ Resolve(th)
          \/ Swap(th)
          \/ Close(th)
          \/ Mkdir(th)
          \/ Open(th)
          \/ Write(th)
          \/ Release(th)
    /\ UNCHANGED <<record, pending, out, files, emitted>>

SpecThreads == Init /\ [][NextThreads]_vars

\* An open handle is the handle of the file at self.filestr and
\* self.baseFilename, and there is one at most.
HandleMatchesPath ==
    /\ Cardinality(OpenHandles) <= 1
    /\ \A p \in AllFiles :
          handles[p] > 0 => p = Abspath(filestr) /\ p = baseFilename

C18_SubclassIsGeneric ==
    (last.sink = "bridge" /\ last.calls # <<>>) =>
        /\ ( /\ last.rec.levelno >= WARNING
             /\ last.active # NoExc
             /\ last.active[1].type = "SubBadStatus" )
           => last.calls[1].status = 0
        /\ (last.rec.exc_info # NoExc /\ last.rec.exc_info[1].type = "SubBadStatus") =>
              /\ last.calls[1].msg.exc # <<>>
              /\ last.calls[1].msg.exc[1].kind = "typemsg"
              /\ last.calls[1].msg.exc[1].type = "SubBadStatus"

C18_Witness ==
    /\ last.sink = "bridge"
    /\ last.rec.levelno = ERROR
    /\ last.rec.exc_info = Exc("SubBadStatus", 1, "bad state")
    /\ last.active = Exc("SubBadStatus", 1, "bad state")
    /\ last.calls # <<>>
    /\ last.calls[1].fn = "ersout"
    /\ last.calls[1].status = 0
    /\ last.calls[1].msg.exc[1].kind = "typemsg"

\* The state an emit leaves when its makedirs failed: self.filestr is the
\* new path already and no handle is open.
StuckOnNewPath ==
    (last.sink = "file" /\ Has(last.ops, [op |-> "makedirs", res |-> "err"])) =>
        /\ filestr = last.resolved[1]
        /\ stream = <<>>
        /\ \A p \in AllFiles : handles[p] = 0

FirstEmitRollsOver ==
    /\ filestr = Dot =>
          /\ stream = <<>>
          /\ \A p \in AllFiles : handles[p] = 0
    /\ (filestr = Dot /\ last'.resolved # <<>>) =>
          /\ last'.changed
          /\ last'.wrote # <<>> =>
                /\ Len(last'.ops) >= 3
                /\ last'.ops[1].op = "makedirs"
                /\ \A i \in Calls(last'.ops, "open") : i > 1
                /\ \A i \in Calls(last'.ops, "write") :
                      \E j \in Calls(last'.ops, "open") : j < i

\* C20 as stated: construction opens no file, and the sentinel differs from
\* every path a template resolves to, so that the first emit always takes
\* the path-changed branch before anything is written.
C20_FirstEmitTakesChangedBranch ==
    [][FileEmitStep => FirstEmitRollsOver]_vars

\* C20 amended: the same for every template but '.', which resolves to
\* the sentinel itself; on that template nothing is ever written.
C20_FirstEmitTakesChangedBranchUnlessDot ==
    [][FileEmitStep =>
          /\ filefmt # "dot" => FirstEmitRollsOver
          /\ filefmt = "dot" => last'.wrote = <<>>]_vars

\* The first record written: the emit made the only day directory there is,
\* then opened and wrote.
C20_Witness ==
    /\ last.sink = "file"
    /\ filefmt = "abs"
    /\ last.changed
    /\ last.ops = <<[op |-> "makedirs", res |-> "ok"], OpOk("open"), OpOk("write")>>
    /\ Cardinality({d \in dirs : Len(d) = 3}) = 1

====
